---- MODULE Spec2Model ----
(***************************************************************************)
(* football_plan_bot.py: the main loop of the bot (daily reset, plan       *)
(* build, settlement of open bets, daily cap, activation scheduling, live  *)
(* scan and signal emission) together with the pure rules it uses.         *)
(*                                                                         *)
(* Conventions.                                                            *)
(*   - Instants are whole seconds since local midnight of day 0; a date    *)
(*     stamp ("%Y-%m-%d") is the day number  t \div DaySeconds.            *)
(*   - A line (a float n + 0.5 in the source) is kept doubled: the line    *)
(*     total + 0.5 is the integer 2*total + 1, and  x > line  is           *)
(*     2*x > line2.                                                        *)
(*   - Python's None is NoneVal where an integer is expected.              *)
(*   - A dict is a function; sent_per_match is keyed by str(fixture_id),   *)
(*     which is one-to-one on integers, so the key is the integer.         *)
(*     open_bets, whose iteration order is the insertion order, is a       *)
(*     sequence of bets.                                                   *)
(***************************************************************************)
EXTENDS Integers, Sequences, FiniteSets, TLC

\* ---------------------------------------------------------------- bounds
NumFixtures == 2      \* fixtures the provider knows: ids 1..NumFixtures
MaxQuery    == 1      \* longest answer of one fixtures-by-date query
MaxLive     == 2      \* longest answer of the live query
MaxRows     == 2      \* per-bet notification/ledger counters saturate here

\* ------------------------------------------------------ program constants
MIN_MINUTE            == 78
MAX_MINUTE            == 86
MAX_SIGNALS_PER_MATCH == 1
MAX_SIGNALS_PER_DAY   == 25
ACTIVE_FROM_MIN       == 65
ACTIVE_TO_MIN         == 95
POLL_SECONDS_ACTIVE   == 90
SLEEP_CHUNK_SECONDS   == 600

TOP5 == { <<"Premier League", "England">>, <<"La Liga", "Spain">>,
          <<"Serie A", "Italy">>, <<"Bundesliga", "Germany">>,
          <<"Ligue 1", "France">> }
UEFA == { <<"UEFA Champions League", "World">>, <<"UEFA Europa League", "World">>,
          <<"UEFA Europa Conference League", "World">> }
UEFA_NAMES == { p[1] : p \in UEFA }

\* ------------------------------------------------------------------ time
DaySeconds == 24 * 3600
NoneVal    == 0 - 1
Date(t)    == t \div DaySeconds
Minutes(m) == m * 60
Hours(h)   == h * 3600

Max2(a, b) == IF a >= b THEN a ELSE b
Min2(a, b) == IF a <= b THEN a ELSE b

\* Kickoff of fixture f: fixture 1 at 22:30 of day 0 (its active window,
\* 23:35 to 00:05, crosses midnight), fixture 2 at 10:00 of day 1, fixture 3
\* at 23:00 of day 0, later ones every 7 hours after that.
Kickoff(f) ==
    CASE f = 1 -> Hours(22) + Minutes(30)
      [] f = 2 -> Hours(34)
      [] f = 3 -> Hours(23)
      [] OTHER -> Hours(34) + Hours(7) * (f - 3)

Fixtures  == 1..NumFixtures
StartTime == Hours(12)

\* The instants the clock visits: the start (noon of day 0); the opening of
\* the active window of fixture 1 and one active poll later; five minutes
\* into day 1 (the last instant of the window of fixture 1, the first of
\* that of fixture 3); two seconds before the window of fixture 2 opens, its
\* opening and one active poll later; one minute after that window closed.
Instants ==
    { StartTime,
      Kickoff(1) + Minutes(ACTIVE_FROM_MIN),
      Kickoff(1) + Minutes(ACTIVE_FROM_MIN) + POLL_SECONDS_ACTIVE,
      DaySeconds + Minutes(5),
      Kickoff(2) + Minutes(ACTIVE_FROM_MIN) - 2,
      Kickoff(2) + Minutes(ACTIVE_FROM_MIN),
      Kickoff(2) + Minutes(ACTIVE_FROM_MIN) + POLL_SECONDS_ACTIVE,
      Kickoff(2) + Minutes(ACTIVE_TO_MIN) + 60 }

Horizon == CHOOSE t \in Instants : \A u \in Instants : u <= t

\* The instants at which a sleep of d seconds, begun at instant t, can end;
\* the clock saturates at Horizon.  A provider or notifier call returns
\* within the granularity of the clock: time passes while the loop sleeps.
Later(t, d) == { u \in Instants : u >= Min2(t + d, Horizon) }

\* ------------------------------------------------------------ pure rules
safe_int(x, default) == IF x = NoneVal THEN default ELSE x

\* fx.goals -> (h, a, h + a)
current_score(goals) ==
    LET h == safe_int(goals[1], 0)
        a == safe_int(goals[2], 0)
    IN  <<h, a, h + a>>

\* total_goals + 0.5, doubled
choose_line(total_goals) == 2 * total_goals + 1

Abs(x) == IF x < 0 THEN 0 - x ELSE x

NoPick == [bet_type |-> "None", line |-> NoneVal]

\* pick_signal_basic without the cut at six goals.
pick_signal_basic_uncut(goals, minute) ==
    LET sc    == current_score(goals)
        total == sc[3]
        diff  == Abs(sc[1] - sc[2])
        line  == choose_line(total)
    IN  IF diff <= 1 THEN [bet_type |-> "OVER", line |-> line]
        ELSE [bet_type |-> "UNDER", line |-> line]

\* pick_signal_basic with the close-score test written diff < 1.
pick_signal_basic_strict(goals, minute) ==
    LET sc    == current_score(goals)
        total == sc[3]
        diff  == Abs(sc[1] - sc[2])
        line  == choose_line(total)
    IN  IF total >= 6 THEN NoPick
        ELSE IF diff < 1 THEN [bet_type |-> "OVER", line |-> line]
        ELSE [bet_type |-> "UNDER", line |-> line]

pick_signal_basic(goals, minute) ==
    LET sc    == current_score(goals)
        total == sc[3]
        diff  == Abs(sc[1] - sc[2])
        line  == choose_line(total)
    IN  IF total >= 6 THEN NoPick
        ELSE IF diff <= 1 THEN [bet_type |-> "OVER", line |-> line]
        ELSE [bet_type |-> "UNDER", line |-> line]

\* eval_result with the two comparisons exchanged.
eval_result_swapped(final_total, bet_type, line) ==
    IF bet_type = "OVER"
      THEN (IF 2 * final_total < line THEN "WIN" ELSE "LOSE")
    ELSE IF bet_type = "UNDER"
      THEN (IF 2 * final_total > line THEN "WIN" ELSE "LOSE")
    ELSE "UNKNOWN"

eval_result(final_total, bet_type, line) ==
    IF bet_type = "OVER"
      THEN (IF 2 * final_total > line THEN "WIN" ELSE "LOSE")
    ELSE IF bet_type = "UNDER"
      THEN (IF 2 * final_total < line THEN "WIN" ELSE "LOSE")
    ELSE "UNKNOWN"

is_target_competition(league) ==
    \/ league \in TOP5
    \/ league[1] \in UEFA_NAMES

\* ---------------------------------------------------------------- planner
\* One plan entry; the league name and country are kept as one pair.
PlanEntry(fx) == [fixture_id |-> safe_int(fx.id, 0), start |-> fx.start, league |-> fx.league]

\* The filter with a kickoff at `now` itself left out.
plan_keeps_after_now(fx, now) ==
    /\ is_target_competition(fx.league)
    /\ fx.start # NoneVal
    /\ ~(fx.start <= now)
    /\ ~(fx.start > now + Hours(24))
    /\ ~(safe_int(fx.id, 0) <= 0)

\* The filter of the loop body of build_24h_plan: fx is kept iff ...
plan_keeps(fx, now) ==
    /\ is_target_competition(fx.league)
    /\ fx.start # NoneVal                      \* parse_fixture_start_local
    /\ ~(fx.start < now)
    /\ ~(fx.start > now + Hours(24))
    /\ ~(safe_int(fx.id, 0) <= 0)

RECURSIVE plan_filter(_, _)
plan_filter(fixtures, now) ==
    IF fixtures = <<>> THEN <<>>
    ELSE LET fx   == Head(fixtures)
             rest == plan_filter(Tail(fixtures), now)
         IN  IF plan_keeps(fx, now) THEN <<PlanEntry(fx)>> \o rest ELSE rest

\* list.sort(key = start_iso) is stable: e goes after every entry whose key
\* is not greater.  ISO strings of one UTC offset order as their instants.
RECURSIVE sort_insert(_, _)
sort_insert(sorted, e) ==
    IF sorted = <<>> THEN <<e>>
    ELSE IF Head(sorted).start <= e.start
           THEN <<Head(sorted)>> \o sort_insert(Tail(sorted), e)
           ELSE <<e>> \o sorted

RECURSIVE sort_by_start(_)
sort_by_start(plan) ==
    IF plan = <<>> THEN <<>>
    ELSE sort_insert(sort_by_start(SubSeq(plan, 1, Len(plan) - 1)), plan[Len(plan)])

\* fixtures = answer for today \o answer for tomorrow; now = now_dt() at entry
build_24h_plan(fixtures, now) == sort_by_start(plan_filter(fixtures, now))

\* -------------------------------------------------------------- scheduler
active_from(p) == p.start + Minutes(ACTIVE_FROM_MIN)
active_to(p)   == p.start + Minutes(ACTIVE_TO_MIN)

\* The loop of next_activation_time from entry k on, best so far in `best`.
RECURSIVE nat_loop(_, _, _, _)
nat_loop(plan, k, best, now) ==
    IF k > Len(plan) THEN best
    ELSE LET p == plan[k] IN
         IF now <= active_to(p)
           THEN IF active_from(p) <= now /\ now <= active_to(p) THEN now
                ELSE IF now < active_from(p)
                       THEN IF best = NoneVal \/ active_from(p) < best
                              THEN nat_loop(plan, k + 1, active_from(p), now)
                              ELSE nat_loop(plan, k + 1, best, now)
                       ELSE nat_loop(plan, k + 1, best, now)
           ELSE nat_loop(plan, k + 1, best, now)

next_activation_time(plan, now) == nat_loop(plan, 1, NoneVal, now)

RECURSIVE active_loop(_, _, _)
active_loop(plan, k, now) ==
    IF k > Len(plan) THEN FALSE
    ELSE IF active_from(plan[k]) <= now /\ now <= active_to(plan[k]) THEN TRUE
    ELSE active_loop(plan, k + 1, now)

\* is_any_match_active_now with the end of the window excluded.
RECURSIVE active_loop_open(_, _, _)
active_loop_open(plan, k, now) ==
    IF k > Len(plan) THEN FALSE
    ELSE IF active_from(plan[k]) <= now /\ now < active_to(plan[k]) THEN TRUE
    ELSE active_loop_open(plan, k + 1, now)

is_any_match_active_now_open(plan, now) == active_loop_open(plan, 1, now)

is_any_match_active_now(plan, now) == active_loop(plan, 1, now)

\* ------------------------------------------------------------ state store
\* dict.get(k, 0)
dict_get(d, k) == IF k \in DOMAIN d THEN d[k] ELSE 0
\* d[k] = v
dict_put(d, k, v) == [x \in (DOMAIN d) \cup {k} |-> IF x = k THEN v ELSE d[x]]

NoFile == [absent |-> TRUE]

\* The document load_state builds when there is no state file.
default_state(today) ==
    [ sent_per_match     |-> <<>>,
      open_bets          |-> <<>>,
      signals_today      |-> 0,
      signals_today_date |-> today,
      plan_date          |-> NoneVal,
      plan               |-> <<>> ]

load_state(file, today) == IF file = NoFile THEN default_state(today) ELSE file

\* save_state that writes no open bets.
save_state_without_bets(st) == [st EXCEPT !.open_bets = <<>>]

\* The content of the state file after save_state(st).
save_state(st) == st

\* reset_daily_if_needed that clears the per-match counters as well.
reset_daily_if_needed_all(st, file, today) ==
    IF st.signals_today_date # today
      THEN LET st1 == [st EXCEPT !.signals_today_date = today, !.signals_today = 0,
                                 !.sent_per_match = <<>>]
           IN  <<st1, save_state(st1)>>
      ELSE <<st, file>>

\* reset_daily_if_needed: <<state, file>> after the call.
reset_daily_if_needed(st, file, today) ==
    IF st.signals_today_date # today
      THEN LET st1 == [st EXCEPT !.signals_today_date = today, !.signals_today = 0]
           IN  <<st1, save_state(st1)>>
      ELSE <<st, file>>

\* ------------------------------------------------------------ environment
\* What the provider and the live matches can show.
Leagues == { <<"Serie A", "Italy">>, <<"Serie A", "Brazil">> }
Scores  == { <<0, 0>>, <<2, 0>>, <<3, 3>> }
Finals  == { <<0, 0>>, <<3, 3>> }
Elapsed == { MIN_MINUTE - 1, MIN_MINUTE, MAX_MINUTE, MAX_MINUTE + 1 }

\* A record of a fixtures-by-date answer.
DayRecords  == { [id |-> f, league |-> <<"Serie A", "Italy">>, start |-> Kickoff(f)] :
                 f \in Fixtures }
\* The short status of a fixture answered by get_fixture_by_id: those the
\* provider gives to a match that is over, and one of a match in play.
OverStatuses == { "FT", "AET", "PEN" }
Statuses     == OverStatuses \cup { "2H" }

\* The records of a live answer: those of a fixture in a target competition
\* at either end of the minutes of play that qualify, with each score; and,
\* for each fixture, a goalless record with one thing wrong: the namesake
\* league, a minute too early, a minute too late, no usable id.
LiveGood == [id : Fixtures, league : {<<"Serie A", "Italy">>},
             elapsed : {MIN_MINUTE, MAX_MINUTE}, goals : Scores]
LiveBad  ==
    [id : Fixtures, league : Leagues \ TOP5, elapsed : {MIN_MINUTE}, goals : {<<0, 0>>}]
    \cup [id : Fixtures, league : {<<"Serie A", "Italy">>},
          elapsed : Elapsed \ (MIN_MINUTE..MAX_MINUTE), goals : {<<0, 0>>}]
    \cup [id : {0}, league : {<<"Serie A", "Italy">>}, elapsed : {MIN_MINUTE},
          goals : {<<0, 0>>}]
LiveRecords == LiveGood \cup LiveBad

SeqsUpTo(S, n) == UNION { [1..k -> S] : k \in 0..n }

\* ------------------------------------------------------------------ state
VARIABLES
    state,          \* the in-memory state document of main()
    disk,           \* the content of STATE_FILE, NoFile before the first save
    pc,             \* where the loop is
    now,            \* the wall clock
    fixtures,       \* build_24h_plan: the answer for today, once received
    snap,           \* list(state["open_bets"].items()) of this tick
    i,              \* index of the settlement loop into snap
    finished_ids,   \* finished_ids of this tick
    cur,            \* what the pending notification is about
    scanned,        \* live records consumed in this tick's scan
    sleep_for,      \* seconds of the pending time.sleep
    sleep_reason,   \* which sleep it is
    signal_sent,    \* fixture_id -> signal notifications delivered
    result_sent,    \* bet_id of an open bet -> result notifications delivered
    ledger,         \* bet_id of an open bet -> number of its rows in CSV_FILE
    plan_builds,    \* [date, count]: plans built and stored with plan_date = date,
                    \* for the latest such date
    day_signals     \* [date, count]: signal notifications delivered while
                    \* signals_today_date = date, for the latest such date

vars == << state, disk, pc, now, fixtures, snap, i, finished_ids, cur,
           scanned, sleep_for, sleep_reason, signal_sent, result_sent,
           ledger, plan_builds, day_signals >>

locals == << fixtures, snap, i, finished_ids, cur, scanned >>
history == << signal_sent, result_sent, ledger, plan_builds >>

NoCur == [kind |-> "none"]

\* A counter that stops counting at MaxRows.
Bump(n) == Min2(n + 1, MaxRows)

\* A state file left by an earlier run of the same day: the plan of the day
\* is stored and all but one of the day's signals went to fixtures (ids
\* 101, 102, ...) whose bets are closed.
OldIds == 101..(100 + MAX_SIGNALS_PER_DAY - 1)
ResumedState ==
    [ sent_per_match     |-> [k \in OldIds |-> 1],
      open_bets          |-> <<>>,
      signals_today      |-> MAX_SIGNALS_PER_DAY - 1,
      signals_today_date |-> Date(StartTime),
      plan_date          |-> Date(StartTime),
      plan               |-> build_24h_plan(
                               [f \in Fixtures |->
                                  [id |-> f, league |-> <<"Serie A", "Italy">>,
                                   start |-> Kickoff(f)]],
                               StartTime) ]

\* main() up to the loop head: load_state, ensure_csv, the start message.
Init ==
    /\ now = StartTime
    /\ disk \in {NoFile, ResumedState}
    /\ state = load_state(disk, Date(now))
    /\ pc = "loop_top"
    /\ fixtures = <<>>
    /\ snap = <<>>
    /\ i = 0
    /\ finished_ids = <<>>
    /\ cur = NoCur
    /\ scanned = 0
    /\ sleep_for = 0
    /\ sleep_reason = "none"
    /\ signal_sent = [k \in DOMAIN state.sent_per_match |-> 1]
    /\ result_sent = <<>>
    /\ ledger = <<>>
    /\ plan_builds = [date |-> state.plan_date,
                       count |-> IF state.plan_date = NoneVal THEN 0 ELSE 1]
    /\ day_signals = [date |-> state.signals_today_date, count |-> state.signals_today]

\* ------------------------------------------------------------ tick pieces
\* A handler that lets the exception end main().
except_handler_reraises == [pc |-> "exit", sleep_for |-> 0]

\* Lines 477-482: both handlers log and sleep POLL_SECONDS_ACTIVE.
except_handler == [pc |-> "sleep", sleep_for |-> POLL_SECONDS_ACTIVE]

\* A call raised: the tick is abandoned where it stands.
Abort ==
    /\ pc' = except_handler.pc
    /\ sleep_for' = except_handler.sleep_for
    /\ sleep_reason' = "error"
    /\ fixtures' = <<>>
    /\ snap' = <<>>
    /\ i' = 0
    /\ finished_ids' = <<>>
    /\ cur' = NoCur
    /\ scanned' = 0

GoSleep(secs, why) ==
    /\ pc' = "sleep"
    /\ sleep_for' = secs
    /\ sleep_reason' = why

\* Lines 351-355: plan = state["plan"], then the settlement loop starts.
BeginSettlement(st) ==
    /\ pc' = "settle"
    /\ snap' = st.open_bets
    /\ i' = 1
    /\ finished_ids' = <<>>

\* after_settlement without the floor of 5 seconds of line 402.
after_settlement_no_floor(st, t) ==
    LET plan == st.plan IN
    IF st.signals_today >= MAX_SIGNALS_PER_DAY
      THEN [pc |-> "sleep", sleep_for |-> SLEEP_CHUNK_SECONDS, why |-> "cap"]
    ELSE IF plan = <<>>
      THEN [pc |-> "sleep", sleep_for |-> SLEEP_CHUNK_SECONDS, why |-> "noplan"]
    ELSE IF ~is_any_match_active_now(plan, t)
      THEN LET nxt == next_activation_time(plan, t) IN
           IF nxt = NoneVal
             THEN [pc |-> "sleep", sleep_for |-> SLEEP_CHUNK_SECONDS, why |-> "noact"]
             ELSE [pc |-> "sleep",
                   sleep_for |-> Min2(nxt - t, SLEEP_CHUNK_SECONDS),
                   why |-> "wait"]
    ELSE [pc |-> "live", sleep_for |-> 0, why |-> "none"]

\* after_settlement without the daily cap check of lines 387-390.
after_settlement_no_cap(st, t) ==
    LET plan == st.plan IN
    IF plan = <<>>
      THEN [pc |-> "sleep", sleep_for |-> SLEEP_CHUNK_SECONDS, why |-> "noplan"]
    ELSE IF ~is_any_match_active_now(plan, t)
      THEN LET nxt == next_activation_time(plan, t) IN
           IF nxt = NoneVal
             THEN [pc |-> "sleep", sleep_for |-> SLEEP_CHUNK_SECONDS, why |-> "noact"]
             ELSE [pc |-> "sleep",
                   sleep_for |-> Min2(Max2(5, nxt - t), SLEEP_CHUNK_SECONDS),
                   why |-> "wait"]
    ELSE [pc |-> "live", sleep_for |-> 0, why |-> "none"]

\* Lines 386-407: what follows the settlement pass, up to the sleep or the
\* live poll.  t is now_dt() there.
after_settlement(st, t) ==
    LET plan == st.plan IN
    IF st.signals_today >= MAX_SIGNALS_PER_DAY
      THEN [pc |-> "sleep", sleep_for |-> SLEEP_CHUNK_SECONDS, why |-> "cap"]
    ELSE IF plan = <<>>
      THEN [pc |-> "sleep", sleep_for |-> SLEEP_CHUNK_SECONDS, why |-> "noplan"]
    ELSE IF ~is_any_match_active_now(plan, t)
      THEN LET nxt == next_activation_time(plan, t) IN
           IF nxt = NoneVal
             THEN [pc |-> "sleep", sleep_for |-> SLEEP_CHUNK_SECONDS, why |-> "noact"]
             ELSE [pc |-> "sleep",
                   sleep_for |-> Min2(Max2(5, nxt - t), SLEEP_CHUNK_SECONDS),
                   why |-> "wait"]
    ELSE [pc |-> "live", sleep_for |-> 0, why |-> "none"]

\* Line 342: is the plan to be built in this tick?
plan_is_stale(st, today) == st.plan_date # today \/ st.plan = <<>>

\* Lines 345-346.
store_plan(st, plan, today) == [st EXCEPT !.plan = plan, !.plan_date = today]

\* Lines 382-383: state["open_bets"].pop(bet_id) for the finished ones.
RECURSIVE pop_bets(_, _)
pop_bets(bets, ids) ==
    IF bets = <<>> THEN <<>>
    ELSE IF \E k \in 1..Len(ids) : ids[k] = Head(bets).bet_id
           THEN pop_bets(Tail(bets), ids)
           ELSE <<Head(bets)>> \o pop_bets(Tail(bets), ids)

bet_ids(bets) == { bets[k].bet_id : k \in 1..Len(bets) }
\* The records of a history that are about the keys in `keep`: a bet that
\* left open_bets is never looked at again.
restrict(d, keep) == [k \in (DOMAIN d) \cap keep |-> d[k]]

bet_fixtures(bets) == { bets[k].fixture_id : k \in 1..Len(bets) }

\* close_bets that pops nothing.
close_bets_keeps(st, ids) == st

close_bets(st, ids) == [st EXCEPT !.open_bets = pop_bets(st.open_bets, ids)]

\* Line 361.
\* A test that takes every status for a finished one.
is_finished_status_any(status) == TRUE

is_finished_status(status) == status \in {"FT", "AET", "PEN"}

\* Lines 416-437: the guards of the live scan; "skip" or the pick.
\* plan_ids that lets every fixture through.
plan_ids_any(plan) == 0..NumFixtures

plan_ids(plan) == { plan[k].fixture_id : k \in 1..Len(plan) }

\* scan_guard without the per-match cap of lines 431-433.
scan_guard_uncapped(st, fx) ==
    LET fixture_id == safe_int(fx.id, 0)
        minute     == safe_int(fx.elapsed, 0)
        sent_count == dict_get(st.sent_per_match, fixture_id)
        pick       == pick_signal_basic(fx.goals, minute)
    IN  IF \/ ~is_target_competition(fx.league)
           \/ fixture_id <= 0
           \/ fixture_id \notin plan_ids(st.plan)
           \/ minute < MIN_MINUTE \/ minute > MAX_MINUTE
           \/ pick = NoPick
          THEN [kind |-> "skip"]
          ELSE [kind |-> "signal", fixture_id |-> fixture_id, minute |-> minute,
                league |-> fx.league,
                score |-> <<current_score(fx.goals)[1], current_score(fx.goals)[2]>>,
                bet_type |-> pick.bet_type, line |-> pick.line,
                sent_count |-> sent_count]

scan_guard(st, fx) ==
    LET fixture_id == safe_int(fx.id, 0)
        minute     == safe_int(fx.elapsed, 0)
        sent_count == dict_get(st.sent_per_match, fixture_id)
        pick       == pick_signal_basic(fx.goals, minute)
    IN  IF \/ ~is_target_competition(fx.league)
           \/ fixture_id <= 0
           \/ fixture_id \notin plan_ids(st.plan)
           \/ minute < MIN_MINUTE \/ minute > MAX_MINUTE
           \/ sent_count >= MAX_SIGNALS_PER_MATCH
           \/ pick = NoPick
          THEN [kind |-> "skip"]
          ELSE [kind |-> "signal", fixture_id |-> fixture_id, minute |-> minute,
                league |-> fx.league,
                score |-> <<current_score(fx.goals)[1], current_score(fx.goals)[2]>>,
                bet_type |-> pick.bet_type, line |-> pick.line,
                sent_count |-> sent_count]

\* Lines 450-464: the OpenBet; t is int(time.time()).  The fields that only
\* feed the ledger row and the message texts (time, league, country, home,
\* away, minute, notes) are left out.
new_bet(c, t) ==
    [ bet_id |-> <<c.fixture_id, t>>, fixture_id |-> c.fixture_id,
      score |-> c.score, bet_type |-> c.bet_type, line |-> c.line ]

\* An emission that counts the signal and opens no bet.
emit_signal_no_bet(st, c, t) ==
    [st EXCEPT !.sent_per_match = dict_put(st.sent_per_match, c.fixture_id, c.sent_count + 1),
               !.signals_today = st.signals_today + 1]

\* Lines 451-467: the state after an emission.
emit_signal(st, c, t) ==
    [st EXCEPT !.open_bets = Append(st.open_bets, new_bet(c, t)),
               !.sent_per_match = dict_put(st.sent_per_match, c.fixture_id, c.sent_count + 1),
               !.signals_today = st.signals_today + 1]

\* The scan without the break of lines 471-472.
scan_breaks_never(st) == FALSE

\* Line 471: does the scan stop after this emission?
scan_breaks(st) == st.signals_today >= MAX_SIGNALS_PER_DAY

\* ---------------------------------------------------------------- actions
\* The points at which the loop is about to issue a provider or notifier call.
AtProviderCall ==
    \/ pc \in {"plan_today", "plan_tomorrow", "live"}
    \/ pc = "settle" /\ i <= Len(snap)
AtNotifierCall == pc \in {"tg_plan", "tg_result", "tg_signal"}
AtCall  == AtProviderCall \/ AtNotifierCall
AtSleep == pc = "sleep"

\* Lines 336-351: the top of a tick, up to the first call of the tick.
TickStart ==
    /\ pc = "loop_top"
    /\ LET today == Date(now)
           r     == reset_daily_if_needed(state, disk, today)
       IN  /\ state' = r[1]
           /\ disk' = r[2]
           /\ IF plan_is_stale(r[1], today)
                THEN /\ pc' = "plan_today"
                     /\ UNCHANGED <<snap, i, finished_ids>>
                ELSE BeginSettlement(r[1])
    /\ day_signals' = IF state'.signals_today_date = day_signals.date THEN day_signals
                      ELSE [date |-> state'.signals_today_date, count |-> 0]
    /\ sleep_for' = 0
    /\ sleep_reason' = "none"
    /\ UNCHANGED <<now, fixtures, cur, scanned, history>>

\* Line 244: get_fixtures_by_date(today) answers resp.
PlanTodayOk(resp) ==
    /\ pc = "plan_today"
    /\ fixtures' = resp
    /\ pc' = "plan_tomorrow"
    /\ UNCHANGED <<state, disk, now, snap, i, finished_ids, cur, scanned,
                   sleep_for, sleep_reason, history, day_signals>>

\* Lines 245-347: get_fixtures_by_date(tomorrow) answers resp; the plan is
\* built, stored and saved.
PlanTomorrowOk(resp) ==
    /\ pc = "plan_tomorrow"
    /\ LET today == Date(now)
           plan  == build_24h_plan(fixtures \o resp, now)
       IN  /\ state' = store_plan(state, plan, today)
           /\ disk' = save_state(state')
           /\ plan_builds' = [date |-> today,
                               count |-> IF plan_builds.date = today
                                           THEN Bump(plan_builds.count) ELSE 1]
    /\ fixtures' = <<>>
    /\ pc' = "tg_plan"
    /\ UNCHANGED <<now, snap, i, finished_ids, cur, scanned, sleep_for,
                   sleep_reason, signal_sent, result_sent, ledger, day_signals>>

\* Line 348: the plan message is delivered.
TgPlanOk ==
    /\ pc = "tg_plan"
    /\ BeginSettlement(state)
    /\ UNCHANGED <<state, disk, now, fixtures, cur, scanned, sleep_for,
                   sleep_reason, history, day_signals>>

\* Lines 356-361: get_fixture_by_id answers nothing, or a fixture that is
\* not finished: the bet is left for a later tick.
FixtureByIdSkip ==
    /\ pc = "settle" /\ i <= Len(snap)
    /\ i' = i + 1
    /\ UNCHANGED <<state, disk, pc, now, fixtures, snap, finished_ids, cur,
                   scanned, sleep_for, sleep_reason, history, day_signals>>

\* Lines 356-363: get_fixture_by_id answers the fixture with a finished
\* status and the goals sc.
FixtureByIdFinished(status, sc) ==
    /\ pc = "settle" /\ i <= Len(snap)
    /\ is_finished_status(status)
    /\ LET bet   == snap[i]
           total == current_score(sc)[3]
       IN  cur' = [kind |-> "result", bet_id |-> bet.bet_id,
                   over |-> status \in OverStatuses,
                   fixture_id |-> bet.fixture_id, final_total |-> total,
                   result |-> eval_result(total, bet.bet_type, bet.line)]
    /\ pc' = "tg_result"
    /\ UNCHANGED <<state, disk, now, fixtures, snap, i, finished_ids, scanned,
                   sleep_for, sleep_reason, history, day_signals>>

\* Lines 365-380: the result message is delivered, the row appended.
TgResultOk ==
    /\ pc = "tg_result"
    /\ result_sent' = dict_put(result_sent, cur.bet_id, Bump(dict_get(result_sent, cur.bet_id)))
    /\ ledger' = dict_put(ledger, cur.bet_id, Bump(dict_get(ledger, cur.bet_id)))
    /\ finished_ids' = Append(finished_ids, cur.bet_id)
    /\ i' = i + 1
    /\ cur' = NoCur
    /\ pc' = "settle"
    /\ UNCHANGED <<state, disk, now, fixtures, snap, scanned, sleep_for,
                   sleep_reason, signal_sent, plan_builds, day_signals>>

\* Lines 382-407: the settlement loop is over; the finished bets are
\* removed, the state saved, and the tick sleeps or goes on to the live poll.
SettleDone ==
    /\ pc = "settle" /\ i > Len(snap)
    /\ state' = close_bets(state, finished_ids)
    /\ disk' = save_state(state')
    /\ result_sent' = restrict(result_sent, bet_ids(state'.open_bets))
    /\ ledger' = restrict(ledger, bet_ids(state'.open_bets))
    /\ LET nx == after_settlement(state', now)
       IN  /\ pc' = nx.pc
           /\ sleep_for' = nx.sleep_for
           /\ sleep_reason' = nx.why
    /\ snap' = <<>>
    /\ i' = 0
    /\ finished_ids' = <<>>
    /\ UNCHANGED <<now, fixtures, cur, scanned, signal_sent, plan_builds, day_signals>>

\* Line 410: get_live_fixtures answers; its records are read one by one.
GetLiveOk ==
    /\ pc = "live"
    /\ pc' = "scan"
    /\ scanned' = 0
    /\ UNCHANGED <<state, disk, now, fixtures, snap, i, finished_ids, cur,
                   sleep_for, sleep_reason, history, day_signals>>

\* Lines 415-437: the next record of the live answer is fx.
ScanNext(fx) ==
    /\ pc = "scan"
    /\ scanned < MaxLive
    /\ scanned' = scanned + 1
    /\ LET g == scan_guard(state, fx)
       IN  IF g.kind = "skip"
             THEN UNCHANGED <<pc, cur>>
             ELSE /\ pc' = "tg_signal"
                  /\ cur' = g
    /\ UNCHANGED <<state, disk, now, fixtures, snap, i, finished_ids,
                   sleep_for, sleep_reason, history, day_signals>>

\* Lines 474-475: the live answer is exhausted.
ScanEnd ==
    /\ pc = "scan"
    /\ GoSleep(POLL_SECONDS_ACTIVE, "active")
    /\ scanned' = 0
    /\ UNCHANGED <<state, disk, now, fixtures, snap, i, finished_ids, cur,
                   history, day_signals>>

\* Lines 440-475: the signal message is delivered, the bet opened, the
\* counters incremented, the state saved.
TgSignalOk ==
    /\ pc = "tg_signal"
    /\ state' = emit_signal(state, cur, now)
    /\ disk' = save_state(state')
    /\ signal_sent' = dict_put(signal_sent, cur.fixture_id,
                               Bump(dict_get(signal_sent, cur.fixture_id)))
    /\ day_signals' = [day_signals EXCEPT !.count = @ + 1]
    /\ cur' = NoCur
    /\ IF scan_breaks(state')
         THEN GoSleep(POLL_SECONDS_ACTIVE, "active") /\ scanned' = 0
         ELSE pc' = "scan" /\ UNCHANGED <<scanned, sleep_for, sleep_reason>>
    /\ UNCHANGED <<now, fixtures, snap, i, finished_ids,
                   result_sent, ledger, plan_builds>>

\* Lines 477-482: the pending provider or notifier call raises.
CallFails ==
    /\ AtCall
    /\ Abort
    /\ UNCHANGED <<state, disk, now, history, day_signals>>

\* time.sleep returns.
Wake ==
    /\ pc = "sleep"
    /\ now' \in Later(now, sleep_for)
    /\ pc' = "loop_top"
    /\ sleep_for' = 0
    /\ sleep_reason' = "none"
    /\ UNCHANGED <<state, disk, fixtures, snap, i, finished_ids, cur, scanned,
                   history, day_signals>>

Next ==
    \/ TickStart
    \/ \E resp \in SeqsUpTo(DayRecords, MaxQuery) : PlanTodayOk(resp)
    \/ \E resp \in SeqsUpTo(DayRecords, MaxQuery) : PlanTomorrowOk(resp)
    \/ TgPlanOk
    \/ FixtureByIdSkip
    \/ \E status \in Statuses, sc \in Finals : FixtureByIdFinished(status, sc)
    \/ TgResultOk
    \/ SettleDone
    \/ GetLiveOk
    \/ \E fx \in LiveRecords : ScanNext(fx)
    \/ ScanEnd
    \/ TgSignalOk
    \/ CallFails
    \/ Wake

Spec == Init /\ [][Next]_vars

\* -------------------------------------------------------------- properties
OpenBetsOf(f) == { k \in 1..Len(state.open_bets) : state.open_bets[k].fixture_id = f }

\* C1: for every fixture, the signal emissions (signal message delivered and
\* OpenBet created) never number more than MAX_SIGNALS_PER_MATCH = 1, and
\* sent_per_match of the fixture never exceeds 1 -- over ticks that see the
\* fixture several times, ticks that a failing call aborts, and daily resets.
C1_OneSignalPerFixture ==
    /\ \A f \in DOMAIN signal_sent : signal_sent[f] <= MAX_SIGNALS_PER_MATCH
    /\ \A f \in DOMAIN state.sent_per_match :
          state.sent_per_match[f] <= MAX_SIGNALS_PER_MATCH
    /\ \A f \in Fixtures : Cardinality(OpenBetsOf(f)) <= MAX_SIGNALS_PER_MATCH

\* A fixture that got its signal on an earlier day is in the plan of the new
\* day while the live answer is being scanned.
C1_Witness ==
    /\ pc = "scan" /\ scanned > 0
    /\ state.signals_today_date # Date(StartTime)
    /\ \E f \in Fixtures :
          /\ dict_get(signal_sent, f) = 1
          /\ f \in plan_ids(state.plan)

\* C2: between two daily resets no more than MAX_SIGNALS_PER_DAY = 25
\* signals are emitted: signals_today never exceeds 25, and no signal
\* message is about to be sent when signals_today >= 25.
C2_DailyCap ==
    /\ state.signals_today <= MAX_SIGNALS_PER_DAY
    /\ day_signals.count <= MAX_SIGNALS_PER_DAY
    /\ day_signals.count = state.signals_today
    /\ pc = "tg_signal" => state.signals_today < MAX_SIGNALS_PER_DAY

\* The cap is reached while a fixture of the plan has no signal yet.
C2_Witness ==
    /\ state.signals_today = MAX_SIGNALS_PER_DAY
    /\ sleep_reason = "cap"
    /\ \E f \in plan_ids(state.plan) : dict_get(state.sent_per_match, f) = 0

\* C3: every bet is settled once: no bet gets a second result message or a
\* second row of the ledger.
C3_SettledOnce ==
    /\ \A b \in DOMAIN result_sent : result_sent[b] <= 1
    /\ \A b \in DOMAIN ledger : ledger[b] <= 1

\* C4: the plan is built and stored at most once for a date.
C4_PlanOncePerDay == plan_builds.count <= 1

\* C9: a failing provider or notifier call never ends the process: the
\* tick is aborted without touching the state, the loop sleeps
\* POLL_SECONDS_ACTIVE = 90 seconds, and what follows a sleep is the top of
\* the next tick.
C9_FailureIsolation ==
    [][ /\ pc' # "exit"
        /\ (AtCall /\ sleep_reason' = "error") =>
              /\ pc' = "sleep"
              /\ sleep_for' = POLL_SECONDS_ACTIVE
              /\ state' = state /\ disk' = disk
        /\ pc = "sleep" => pc' = "loop_top" ]_vars

\* A call of the settlement pass or of the live poll has failed while a bet
\* is open, and the loop is in its 90 second sleep.
C9_Witness ==
    /\ pc = "sleep" /\ sleep_reason = "error"
    /\ sleep_for = POLL_SECONDS_ACTIVE
    /\ state.open_bets # <<>>
    /\ state.plan # <<>>

\* C10: wherever the loop sleeps or issues a provider or notifier call,
\* load_state of the state file gives the state in memory.
C10_WriteThrough ==
    (AtCall \/ AtSleep) => load_state(disk, Date(now)) = state

\* A call is issued in the tick that has just opened a bet.
C10_Witness ==
    /\ pc = "tg_signal"
    /\ state.open_bets # <<>>
    /\ state.open_bets[Len(state.open_bets)].bet_id[2] = now
    /\ disk # NoFile

\* Past the top of a tick the stamp of the daily counter is the current date.
StampIsToday ==
    pc \in {"settle", "tg_result", "live", "scan", "tg_signal"} =>
        state.signals_today_date = Date(now)

\* C11: at the top of a tick a stale stamp makes signals_today 0 and the
\* stamp the current date, before the settlement and the scan of the tick;
\* otherwise signals_today changes only by +1 at an emission; closing bets
\* changes neither signals_today nor sent_per_match; the daily reset and the
\* plan rebuild change neither open_bets nor sent_per_match.
C11_CounterDiscipline ==
    /\ StampIsToday
    /\ [][ /\ StampIsToday'
           /\ pc = "loop_top" =>
                /\ state'.signals_today_date = Date(now)
                /\ state'.signals_today =
                      IF state.signals_today_date # Date(now) THEN 0
                      ELSE state.signals_today
           /\ pc # "loop_top" =>
                /\ state'.signals_today_date = state.signals_today_date
                /\ \/ state'.signals_today = state.signals_today
                   \/ /\ pc = "tg_signal"
                      /\ state'.signals_today = state.signals_today + 1
           /\ pc \in {"settle", "tg_result"} =>
                /\ state'.signals_today = state.signals_today
                /\ state'.sent_per_match = state.sent_per_match
           /\ pc \in {"loop_top", "plan_today", "plan_tomorrow", "tg_plan"} =>
                /\ state'.open_bets = state.open_bets
                /\ state'.sent_per_match = state.sent_per_match ]_vars

\* The settlement pass of the first tick of a new day: the counter is 0, a
\* bet of the day before is open and its fixture keeps its count.
C11_Witness ==
    /\ pc = "settle"
    /\ state.signals_today = 0
    /\ state.signals_today_date # Date(StartTime)
    /\ state.open_bets # <<>>
    /\ \E f \in Fixtures : dict_get(state.sent_per_match, f) = 1

\* C13: the phases of a tick come in the order daily reset, plan rebuild,
\* settlement pass, daily cap, empty plan, activation, live poll and scan:
\* every position of the loop is entered from the one before it only; the
\* live poll follows a completed settlement pass with the cap not reached,
\* a plan and an active window; a pass that ends with signals_today >= 25
\* goes to a sleep of SLEEP_CHUNK_SECONDS.
C13_PhaseOrder ==
    [][ /\ pc = "loop_top" =>
              /\ state'.signals_today_date = Date(now)
              /\ pc' \in {"plan_today", "settle"}
        /\ pc' = "plan_today" => pc = "loop_top"
        /\ pc' = "plan_tomorrow" => pc = "plan_today"
        /\ pc' = "tg_plan" => pc = "plan_tomorrow"
        /\ pc' = "settle" =>
              /\ pc \in {"loop_top", "tg_plan", "settle", "tg_result"}
              /\ state'.plan_date = Date(now)
        /\ pc' = "tg_result" => pc = "settle"
        /\ pc' = "live" =>
              /\ pc = "settle" /\ i > Len(snap)
              /\ state'.signals_today < MAX_SIGNALS_PER_DAY
              /\ state'.plan # <<>>
              /\ \E k \in 1..Len(state'.plan) :
                    /\ state'.plan[k].start + Minutes(ACTIVE_FROM_MIN) <= now
                    /\ now <= state'.plan[k].start + Minutes(ACTIVE_TO_MIN)
        /\ pc' = "scan" => pc \in {"live", "scan", "tg_signal"}
        /\ pc' = "tg_signal" => pc = "scan"
        /\ (pc = "settle" /\ i > Len(snap)
               /\ state'.signals_today >= MAX_SIGNALS_PER_DAY) =>
              /\ pc' = "sleep"
              /\ sleep_for' = SLEEP_CHUNK_SECONDS
        /\ sleep_reason' = "cap" => sleep_reason = "cap" \/ (pc = "settle" /\ i > Len(snap))
      ]_vars

\* The settlement pass of a tick at the daily cap has closed a bet.
C13_Witness ==
    /\ pc = "settle" /\ i > Len(snap)
    /\ finished_ids # <<>>
    /\ state.signals_today >= MAX_SIGNALS_PER_DAY

\* The signal messages delivered for a fixture number its sent_per_match.
SentIsCounted == signal_sent = state.sent_per_match

\* C14: a delivered signal message comes with one new bet of that fixture,
\* sent_per_match of the fixture + 1 and signals_today + 1, all saved before
\* the next call; a failed one changes nothing; nothing else delivers a
\* signal, opens a bet or counts one.  So the messages delivered for a
\* fixture always number sent_per_match of the fixture.
C14_EmissionAtomic ==
    /\ SentIsCounted
    /\ [][ /\ SentIsCounted'
           /\ pc = "tg_signal" =>
                LET f == cur.fixture_id IN
                \/ /\ signal_sent' = dict_put(signal_sent, f, dict_get(signal_sent, f) + 1)
                   /\ Len(state'.open_bets) = Len(state.open_bets) + 1
                   /\ SubSeq(state'.open_bets, 1, Len(state.open_bets)) = state.open_bets
                   /\ state'.open_bets[Len(state'.open_bets)].fixture_id = f
                   /\ state'.open_bets[Len(state'.open_bets)].bet_id
                         \notin bet_ids(state.open_bets)
                   /\ state'.sent_per_match =
                         dict_put(state.sent_per_match, f,
                                  dict_get(state.sent_per_match, f) + 1)
                   /\ state'.signals_today = state.signals_today + 1
                   /\ load_state(disk', Date(now)) = state'
                   /\ pc' \in {"scan", "sleep"}
                \/ /\ UNCHANGED <<state, disk, signal_sent>>
                   /\ pc' = "sleep" /\ sleep_reason' = "error"
           /\ pc # "tg_signal" =>
                /\ signal_sent' = signal_sent
                /\ state'.sent_per_match = state.sent_per_match
                /\ bet_ids(state'.open_bets) \subseteq bet_ids(state.open_bets) ]_vars

\* A tick that delivered one signal and then failed at a later call.
C14_Witness ==
    /\ pc = "sleep" /\ sleep_reason = "error"
    /\ state.open_bets # <<>>
    /\ state.open_bets[Len(state.open_bets)].bet_id[2] = now
    /\ state.signals_today < MAX_SIGNALS_PER_DAY

C16_SleepCadence ==
    pc = "sleep" =>
        LET plan  == state.plan
            ahead == { plan[k].start + Minutes(65) : k \in
                         { j \in 1..Len(plan) : now < plan[j].start + Minutes(65) } }
            A     == CHOOSE a \in ahead : \A b \in ahead : a <= b
            d     == A - now
        IN  /\ 5 <= sleep_for /\ sleep_for <= 600
            /\ sleep_reason \in {"active", "error", "cap", "noplan", "noact", "wait"}
            /\ sleep_reason \in {"active", "error"} => sleep_for = 90
            /\ sleep_reason = "cap" =>
                  sleep_for = 600 /\ state.signals_today >= 25
            /\ sleep_reason = "noplan" => sleep_for = 600 /\ plan = <<>>
            /\ sleep_reason = "noact" => sleep_for = 600 /\ ahead = {}
            /\ sleep_reason = "wait" =>
                  /\ state.signals_today < 25 /\ ahead # {}
                  /\ sleep_for = Min2(Max2(5, d), 600)
                  /\ now + sleep_for <= Max2(A, now + 5)

\* Two seconds before a window opens the loop sleeps five.
C16_Witness ==
    /\ pc = "sleep" /\ sleep_reason = "wait"
    /\ sleep_for = 5
    /\ next_activation_time(state.plan, now) = now + 2

\* A result message is about the open bet under settlement, whose fixture was answered as finished.
ResultIsOfFinished ==
    pc = "tg_result" =>
        /\ cur.over
        /\ cur.bet_id = snap[i].bet_id
        /\ cur.bet_id \in bet_ids(state.open_bets)

\* C17: a bet leaves open_bets only at the end of a settlement pass in which
\* the provider answered its fixture with status FT, AET or PEN and its
\* result message and ledger row were produced; a bet whose fixture is
\* missing or has another status stays as it is, with no message and no
\* row in that tick.
C17_LeavesBySettlement ==
    /\ ResultIsOfFinished
    /\ [][ /\ ResultIsOfFinished'
           /\ \A b \in bet_ids(state.open_bets) \ bet_ids(state'.open_bets) :
                /\ pc = "settle" /\ i > Len(snap)
                /\ \E k \in 1..Len(finished_ids) : finished_ids[k] = b
                /\ dict_get(result_sent, b) >= 1
                /\ dict_get(ledger, b) >= 1
           /\ \A k \in 1..Len(state'.open_bets) :
                \/ \E j \in 1..Len(state.open_bets) :
                      state.open_bets[j] = state'.open_bets[k]
                \/ pc = "tg_signal"
           /\ (finished_ids' # finished_ids /\ finished_ids' # <<>>) =>
                /\ pc = "tg_result"
                /\ finished_ids' = Append(finished_ids, cur.bet_id)
           /\ (result_sent' # result_sent \/ ledger' # ledger) =>
                \/ /\ pc = "tg_result"
                   /\ dict_get(result_sent', cur.bet_id) >= 1
                   /\ dict_get(ledger', cur.bet_id) >= 1
                   /\ \A b \in DOMAIN ledger : b # cur.bet_id =>
                         ledger'[b] = ledger[b] /\ result_sent'[b] = result_sent[b]
                \/ /\ pc = "settle" /\ i > Len(snap)
                   /\ \A b \in bet_ids(state'.open_bets) :
                         /\ dict_get(ledger', b) = dict_get(ledger, b)
                         /\ dict_get(result_sent', b) = dict_get(result_sent, b)
           /\ pc \in {"loop_top", "tg_plan"} => finished_ids' = <<>>
           /\ (pc = "settle" /\ i <= Len(snap) /\ pc' = "settle") =>
                /\ i' = i + 1
                /\ UNCHANGED <<state, disk, finished_ids, result_sent, ledger>>
         ]_vars

\* One pass closes one bet and leaves another, whose fixture is not over.
C17_Witness ==
    /\ pc = "settle" /\ i > Len(snap)
    /\ Len(snap) = 2
    /\ Len(finished_ids) = 1
    /\ finished_ids[1] = snap[1].bet_id
    /\ dict_get(ledger, snap[2].bet_id) = 0

\* C18: every bet of open_bets is OVER or UNDER, at the line (goals at the
\* emission) + 0.5 with those goals totalling 0 to 5; so the result of every
\* row of the ledger is WIN or LOSE, never UNKNOWN.
C18_NoUnknown ==
    /\ \A k \in 1..Len(state.open_bets) :
          LET bet   == state.open_bets[k]
              total == bet.score[1] + bet.score[2]
          IN  /\ bet.bet_type \in {"OVER", "UNDER"}
              /\ total \in 0..5
              /\ bet.line = 2 * total + 1
    /\ pc = "tg_result" => cur.result \in {"WIN", "LOSE"}

\* The row of a lost UNDER bet is about to be written.
C18_Witness ==
    /\ pc = "tg_result"
    /\ snap[i].bet_type = "UNDER"
    /\ cur.final_total > snap[i].score[1] + snap[i].score[2]
    /\ cur.result = "LOSE"

\* C19: no two entries of the stored plan have the same fixture_id.
C19_PlanUnique ==
    \A j, k \in 1..Len(state.plan) :
        j # k => state.plan[j].fixture_id # state.plan[k].fixture_id

\* C20: a fixture of the stored plan is still in the plan at every tick
\* inside its own window [kickoff + 65 min, kickoff + 95 min]: no step that
\* ends inside the window of an entry of the plan takes the entry's fixture
\* out of the plan.
C20_PlanCoverage ==
    [][ \A k \in 1..Len(state.plan) :
            LET p == state.plan[k] IN
            (p.start + Minutes(65) <= now' /\ now' <= p.start + Minutes(95)) =>
                \E j \in 1..Len(state'.plan) :
                    state'.plan[j].fixture_id = p.fixture_id ]_vars

\* -------------------------------------------------- the rules on their own
\* The pure rules are applied to arguments drawn from bounded sets: cur
\* holds the call, and after the step its result.
MaxGoals == 4
MaxPlan  == 2
MaxBatch == 2

GoalVals == (0..MaxGoals) \cup {NoneVal}
FnKick   == Hours(20)
FnEntries ==
    { [fixture_id |-> 1, start |-> FnKick, league |-> <<"Serie A", "Italy">>],
      [fixture_id |-> 2, start |-> FnKick + Minutes(35), league |-> <<"Serie A", "Italy">>] }
FnNows ==
    { FnKick + Minutes(m) : m \in {0, 64, 65, 66, 95, 96, 99, 100, 130, 131} }
      \cup { FnKick + Minutes(ACTIVE_FROM_MIN) - 1, FnKick + Minutes(ACTIVE_TO_MIN) + 1 }

\* Records of a fixtures-by-date answer, for the planner on its own: a
\* Top-5 league, its namesake of another country, a UEFA name, a missing
\* league; no kickoff, kickoffs around both ends of the 24 hours; no id, id 0.
FnLeagues == { <<"Serie A", "Italy">>, <<"Serie A", "Brazil">>,
               <<"UEFA Champions League", "Europe">>, <<"", "">> }
FnStarts  == { NoneVal, StartTime - 1, StartTime, StartTime + Hours(24),
               StartTime + Hours(24) + 1 }
FnRecords == [id : {NoneVal, 0, 1}, league : FnLeagues, start : FnStarts]

FnCalls ==
    { [fn |-> "build_24h_plan", args |-> <<fxs, StartTime>>] :
          fxs \in SeqsUpTo(FnRecords, MaxBatch) }
    \cup
    { [fn |-> "pick_signal_basic", args |-> <<<<h, a>>, m>>] :
          h \in GoalVals, a \in GoalVals, m \in Elapsed }
    \cup
    { [fn |-> "eval_result", args |-> <<ft, bt, choose_line(t)>>] :
          ft \in 0..(2 * MaxGoals), bt \in {"OVER", "UNDER", "HANDICAP"},
          t \in 0..5 }
    \cup
    { [fn |-> "scheduler", args |-> <<pl, t>>] :
          pl \in SeqsUpTo(FnEntries, MaxPlan), t \in FnNows }

FnInit ==
    /\ cur \in FnCalls
    /\ pc = "call"
    /\ now = StartTime
    /\ disk = NoFile
    /\ state = default_state(Date(StartTime))
    /\ fixtures = <<>> /\ snap = <<>> /\ i = 0 /\ finished_ids = <<>>
    /\ scanned = 0 /\ sleep_for = 0 /\ sleep_reason = "none"
    /\ signal_sent = <<>> /\ result_sent = <<>> /\ ledger = <<>>
    /\ plan_builds = [date |-> NoneVal, count |-> 0]
    /\ day_signals = [date |-> Date(StartTime), count |-> 0]

FnFrame ==
    /\ pc' = "return"
    /\ UNCHANGED <<state, disk, now, fixtures, snap, i, finished_ids, scanned,
                   sleep_for, sleep_reason, history, day_signals>>

ApplyPick ==
    /\ pc = "call" /\ cur.fn = "pick_signal_basic"
    /\ cur' = [fn |-> cur.fn, args |-> cur.args,
               out |-> pick_signal_basic(cur.args[1], cur.args[2])]
    /\ FnFrame

ApplyEval ==
    /\ pc = "call" /\ cur.fn = "eval_result"
    /\ cur' = [fn |-> cur.fn, args |-> cur.args,
               out |-> eval_result(cur.args[1], cur.args[2], cur.args[3])]
    /\ FnFrame

ApplyScheduler ==
    /\ pc = "call" /\ cur.fn = "scheduler"
    /\ cur' = [fn |-> cur.fn, args |-> cur.args,
               out |-> [active |-> is_any_match_active_now(cur.args[1], cur.args[2]),
                        next   |-> next_activation_time(cur.args[1], cur.args[2])]]
    /\ FnFrame

ApplyPlan ==
    /\ pc = "call" /\ cur.fn = "build_24h_plan"
    /\ cur' = [fn |-> cur.fn, args |-> cur.args,
               out |-> build_24h_plan(cur.args[1], cur.args[2])]
    /\ FnFrame

FnNext == ApplyPick \/ ApplyEval \/ ApplyScheduler \/ ApplyPlan

FnSpec == FnInit /\ [][FnNext]_vars

Returned(fn) == pc = "return" /\ cur.fn = fn

\* C6: for goals home, away >= 0 with total = home + away and
\* diff = |home - away|, pick_signal_basic gives no signal when total >= 6,
\* else OVER at total + 0.5 when diff <= 1, else UNDER at total + 0.5; the
\* minute does not change the result.  (Lines are stored doubled.)
C6_PickSignalBasic ==
    Returned("pick_signal_basic") =>
        LET home  == cur.args[1][1]
            away  == cur.args[1][2]
            total == home + away
            diff  == IF home >= away THEN home - away ELSE away - home
        IN  (home >= 0 /\ away >= 0) =>
              /\ total >= 6 => cur.out = NoPick
              /\ (total < 6 /\ diff <= 1) =>
                    cur.out = [bet_type |-> "OVER", line |-> 2 * total + 1]
              /\ (total < 6 /\ diff >= 2) =>
                    cur.out = [bet_type |-> "UNDER", line |-> 2 * total + 1]
              /\ \A m \in 0..120 : pick_signal_basic(cur.args[1], m) = cur.out

\* The largest total that still gives a signal, with a one-goal difference.
C6_Witness ==
    /\ Returned("pick_signal_basic")
    /\ cur.args[1] = <<3, 2>>
    /\ cur.out.bet_type = "OVER"

\* C7: for a bet OVER or UNDER with a half-integer line and an integer
\* final total, eval_result is WIN iff OVER and final > line, or UNDER and
\* final < line, and LOSE otherwise; for the line t + 0.5, OVER wins iff
\* final >= t + 1 and UNDER wins iff final <= t.
C7_EvalResult ==
    (Returned("eval_result") /\ cur.args[2] \in {"OVER", "UNDER"}) =>
        LET final  == cur.args[1]
            bt     == cur.args[2]
            line2  == cur.args[3]
            t      == (line2 - 1) \div 2
            win    == \/ bt = "OVER"  /\ 2 * final > line2
                      \/ bt = "UNDER" /\ 2 * final < line2
        IN  /\ cur.out \in {"WIN", "LOSE"}
            /\ cur.out = "WIN" <=> win
            /\ bt = "OVER"  => (cur.out = "WIN" <=> final >= t + 1)
            /\ bt = "UNDER" => (cur.out = "WIN" <=> final <= t)

\* UNDER 2.5 with a final total of 3 loses.
C7_Witness ==
    /\ Returned("eval_result")
    /\ cur.args = <<3, "UNDER", 5>>
    /\ cur.out = "LOSE"

\* C8: is_any_match_active_now is true iff kickoff + 65 min <= now <=
\* kickoff + 95 min for some entry; next_activation_time is now exactly
\* then, otherwise the least kickoff + 65 min among the entries with
\* now < kickoff + 65 min, and none iff now > kickoff + 95 min for every
\* entry (or the plan is empty).
C8_Scheduler ==
    Returned("scheduler") =>
        LET plan   == cur.args[1]
            t      == cur.args[2]
            K      == 1..Len(plan)
            active == \E k \in K :
                          /\ plan[k].start + Minutes(65) <= t
                          /\ t <= plan[k].start + Minutes(95)
            ahead  == { plan[k].start + Minutes(65) : k \in
                          { j \in K : t < plan[j].start + Minutes(65) } }
        IN  /\ cur.out.active <=> active
            /\ cur.out.next = t <=> active
            /\ ~active =>
                  cur.out.next = IF ahead = {} THEN NoneVal
                                 ELSE CHOOSE a \in ahead : \A b \in ahead : a <= b
            /\ cur.out.next = NoneVal <=>
                  \A k \in K : t > plan[k].start + Minutes(95)

\* The last instant of the window of the first of two entries.
C8_Witness ==
    /\ Returned("scheduler")
    /\ Len(cur.args[1]) = 2
    /\ cur.args[1][1].start # cur.args[1][2].start
    /\ cur.args[2] = cur.args[1][1].start + Minutes(ACTIVE_TO_MIN)
    /\ cur.out.active
    /\ cur.out.next = cur.args[2]

SettleFinished(f) ==
    /\ pc = "settle" /\ i <= Len(snap)
    /\ snap[i].fixture_id = f
    /\ \E status \in OverStatuses, sc \in Finals :
          FixtureByIdFinished(status, sc)

ResultDelivered(f) ==
    /\ pc = "tg_result"
    /\ cur.fixture_id = f
    /\ TgResultOk

Fairness ==
    /\ WF_vars(Next)
    /\ SF_vars(\E resp \in SeqsUpTo(DayRecords, MaxQuery) : PlanTodayOk(resp))
    /\ SF_vars(\E resp \in SeqsUpTo(DayRecords, MaxQuery) : PlanTomorrowOk(resp))
    /\ SF_vars(TgPlanOk)
    /\ \A f \in Fixtures : SF_vars(SettleFinished(f)) /\ SF_vars(ResultDelivered(f))

LiveSpec == Init /\ [][Next]_vars /\ Fairness

HasOpenBet(f) == f \in bet_fixtures(state.open_bets)

ResultRecorded(f) ==
    \E k \in 1..Len(state.open_bets) :
        /\ state.open_bets[k].fixture_id = f
        /\ dict_get(result_sent, state.open_bets[k].bet_id) >= 1
        /\ dict_get(ledger, state.open_bets[k].bet_id) >= 1

\* C5: every open bet whose fixture has ended gets, calls not failing for
\* ever, its result message and its ledger row, and leaves open_bets --
\* whatever sleep the loop is in.
C5_EventuallySettled ==
    \A f \in Fixtures :
        /\ HasOpenBet(f) ~> ResultRecorded(f)
        /\ HasOpenBet(f) ~> ~HasOpenBet(f)

\* A bet is open while the loop sleeps at the daily cap.
C5_Witness ==
    /\ pc = "sleep" /\ sleep_reason = "cap"
    /\ \E f \in Fixtures : HasOpenBet(f)

====
